---------------------------- MODULE Spec2Model ----------------------------
(***************************************************************************)
(* libsigrok, driver rdtech-um (RDTech UM24C USB power meter):             *)
(* src/hardware/rdtech-um/protocol.c and protocol.h.                       *)
(*                                                                         *)
(* The model covers the probe exchange (rdtech_um_probe), the poll         *)
(* command (rdtech_um_poll), the frame assembler (recv_poll_data), the     *)
(* sample decoder (get_sample, send_channel, handle_poll_data) and the     *)
(* event-loop callback (rdtech_um_receive_data).                           *)
(*                                                                         *)
(* Bytes are integers 0..255.  Times are monotonic milliseconds.  A float  *)
(* (IEEE 754 single precision) is the record [m, e] of its 24-bit          *)
(* significand and its exponent: the value is m * 2^e, with                *)
(* 2^23 <= m < 2^24, or m = 0 and e = 0 for 0.0.  A uint32_t is kept as    *)
(* its two 16-bit halves [hi, lo].                                         *)
(***************************************************************************)
EXTENDS Integers, Sequences, FiniteSets, TLC

VARIABLES
    profile,      \* devc->profile
    buf,          \* devc->buf[0 .. buflen-1], the bytes in use
    buflen,       \* devc->buflen
    cmd_sent_at,  \* devc->cmd_sent_at
    limits,       \* devc->limits
    acquiring,    \* the receive callback is registered with the session
    now,          \* g_get_monotonic_time() / 1000
    wire,         \* bytes the device sends that have not been read yet
    tx,           \* bytes written to the serial port
    sink,         \* packets handed to sr_session_send, oldest first
    decoded,      \* buffers handed to handle_poll_data, oldest first
    skipped,      \* bytes dropped by the start-marker check, oldest first
    stops,        \* number of calls of sr_dev_acquisition_stop
    cb,           \* what the last call of rdtech_um_receive_data did
    pr,           \* what the last call of rdtech_um_probe did
    sample,       \* what the last call of get_sample returned
    dev           \* what the device sends during the acquisition

vars == << profile, buf, buflen, cmd_sent_at, limits, acquiring, now, wire,
           tx, sink, decoded, skipped, stops, cb, pr, sample, dev >>

---------------------------------------------------------------------------
(* Program constants.                                                      *)

SERIAL_WRITE_TIMEOUT_MS == 1
RDTECH_UM24C_POLL_LEN == 130
RDTECH_UM_BUFSIZE == 256

RDTECH_UM_UINT8 == 0
RDTECH_UM_UINT16 == 1
RDTECH_UM_UINT32 == 2

\* The null pointer, for a marker a profile does not define.
NULL == << -1 >>

\* The GLib I/O condition "data to read".
G_IO_IN == 1

\* The request byte of probe and poll.
request == << 240 >>

\* The float constants of the channel table: the single-precision values
\* nearest to 0.01 (0x3C23D70A) and 0.001 (0x3A83126F), and 1.0.
FLOAT_0_01 == [ m |-> 10737418, e |-> -30 ]
FLOAT_0_001 == [ m |-> 8589935, e |-> -33 ]
FLOAT_1_0 == [ m |-> 8388608, e |-> -23 ]

\* Channel table.  The terminating { NULL, } entry ends the table and is
\* not part of the sequence.
rdtech_um24c_channels ==
    << [name |-> "V", offset |-> 2, type |-> RDTECH_UM_UINT16,
        scale |-> FLOAT_0_01,
        digits |-> 2, mq |-> "SR_MQ_VOLTAGE", unit |-> "SR_UNIT_VOLT"],
       [name |-> "I", offset |-> 4, type |-> RDTECH_UM_UINT16,
        scale |-> FLOAT_0_001,
        digits |-> 3, mq |-> "SR_MQ_CURRENT", unit |-> "SR_UNIT_AMPERE"],
       [name |-> "D+", offset |-> 96, type |-> RDTECH_UM_UINT16,
        scale |-> FLOAT_0_01,
        digits |-> 2, mq |-> "SR_MQ_VOLTAGE", unit |-> "SR_UNIT_VOLT"],
       [name |-> "D-", offset |-> 98, type |-> RDTECH_UM_UINT16,
        scale |-> FLOAT_0_01,
        digits |-> 2, mq |-> "SR_MQ_VOLTAGE", unit |-> "SR_UNIT_VOLT"],
       [name |-> "Temp", offset |-> 10, type |-> RDTECH_UM_UINT16,
        scale |-> FLOAT_1_0, digits |-> 0, mq |-> "SR_MQ_TEMPERATURE",
        unit |-> "SR_UNIT_CELSIUS"],
       [name |-> "Consumption", offset |-> 106, type |-> RDTECH_UM_UINT32,
        scale |-> FLOAT_0_001, digits |-> 3, mq |-> "0", unit |-> "SR_UNIT_WATT_HOUR"] >>

rdtech_um24c_profile ==
    [ model_name |-> "UM24C",
      poll_period |-> 100,
      timeout |-> 1000,
      poll_len |-> RDTECH_UM24C_POLL_LEN,
      poll_start |-> << 9, 99 >>,
      poll_start_len |-> 2,
      poll_end |-> << 255, 241 >>,
      poll_end_len |-> 2,
      channels |-> rdtech_um24c_channels ]

---------------------------------------------------------------------------
(* Library helpers.                                                        *)

\* memcmp(a + off, m, n): 0 when the n bytes of a from offset off equal the
\* first n bytes of m, 1 otherwise (only the zero test is used).
memcmp(a, off, m, n) ==
    IF \A i \in 1..n : a[off + i] = m[i] THEN 0 ELSE 1

\* RB16 reading the low byte first.
RB16_le(data, off) == data[off + 2] * 256 + data[off + 1]

\* RB16, RB32: big-endian unsigned reads (libsigrok-internal.h).
RB16(data, off) == data[off + 1] * 256 + data[off + 2]

RB32(data, off) ==
    [ hi |-> data[off + 1] * 256 + data[off + 2],
      lo |-> data[off + 3] * 256 + data[off + 4] ]

---------------------------------------------------------------------------
(* Single-precision arithmetic, round to nearest, ties to even.            *)

\* The number of bits of n, 0 <= n < 2^24.
BitLen(n) ==
    IF n = 0 THEN 0 ELSE CHOOSE l \in 1..24 : 2^(l - 1) <= n /\ n < 2^l

\* q, the quotient of a division that left the remainder r of a divisor
\* 2 * half, rounded to nearest, ties to even.
RoundEven(q, r, half) ==
    IF r > half \/ (r = half /\ q % 2 = 1) THEN q + 1 ELSE q

\* The float m * 2^e for 2^23 <= m <= 2^24.
Normal(m, e) ==
    IF m = 16777216 THEN [ m |-> 8388608, e |-> e + 1 ] ELSE [ m |-> m, e |-> e ]

\* (float)n for an int or unsigned n below 2^24: exact.
int_to_float(n) ==
    IF n = 0
    THEN [ m |-> 0, e |-> 0 ]
    ELSE [ m |-> n * 2^(24 - BitLen(n)), e |-> BitLen(n) - 24 ]

\* (float)u for a uint32_t u: rounded to 24 bits from 2^24 on.
uint32_to_float(u) ==
    IF u.hi < 256
    THEN int_to_float(u.hi * 65536 + u.lo)
    ELSE LET s == BitLen(u.hi) - 8
         IN  Normal(RoundEven(u.hi * 2^(16 - s) + u.lo \div 2^s,
                              u.lo % 2^s, 2^(s - 1)),
                    s)

\* a * b for floats a and b: the 48-bit product of the significands, kept
\* as h * 2^24 + l, rounded to 24 bits.
float_mul(a, b) ==
    IF a.m = 0 \/ b.m = 0
    THEN [ m |-> 0, e |-> 0 ]
    ELSE LET a1 == a.m \div 4096
             a0 == a.m % 4096
             b1 == b.m \div 4096
             b0 == b.m % 4096
             mid == a1 * b0 + a0 * b1
             lt == (mid % 4096) * 4096 + a0 * b0
             h == a1 * b1 + mid \div 4096 + lt \div 16777216
             l == lt % 16777216
         IN  IF h >= 8388608
             THEN Normal(RoundEven(h, l, 8388608), a.e + b.e + 24)
             ELSE Normal(RoundEven(2 * h + l \div 8388608, l % 8388608,
                                   4194304),
                         a.e + b.e + 23)

---------------------------------------------------------------------------
(* Sample decoder.                                                         *)

\* get_sample: the integer read is converted to float and multiplied by
\* the float scale; 0.0f for an illegal data type.
get_sample(data, ch_meta) ==
    IF ch_meta.type = RDTECH_UM_UINT8
    THEN float_mul(int_to_float(data[ch_meta.offset + 1]), ch_meta.scale)
    ELSE IF ch_meta.type = RDTECH_UM_UINT16
    THEN float_mul(int_to_float(RB16(data, ch_meta.offset)), ch_meta.scale)
    ELSE IF ch_meta.type = RDTECH_UM_UINT32
    THEN float_mul(uint32_to_float(RB32(data, ch_meta.offset)),
                   ch_meta.scale)
    ELSE [ m |-> 0, e |-> 0 ]

\* The packet send_channel hands to sr_session_send for channel ch.
send_channel(data, ch_meta, ch) ==
    [ type |-> "SR_DF_ANALOG",
      channel |-> ch,
      mq |-> ch_meta.mq,
      unit |-> ch_meta.unit,
      mqflags |-> 0,
      digits |-> ch_meta.digits,
      spec_digits |-> ch_meta.digits,
      data |-> get_sample(data, ch_meta),
      num_samples |-> 1 ]

\* sdi->channels: the device's channels, one per entry of the channel table
\* (created from it when the device is scanned), named by their index.
sdi_channels(p) == [i \in 1..Len(p.channels) |-> i]

\* sr_sw_limits_update_samples_read: count n more samples.
sr_sw_limits_update_samples_read(lim, n) ==
    [lim EXCEPT !.samples_read = @ + n]

\* sr_sw_limits_check: a configured cap (0: none) is reached.
sr_sw_limits_check(lim, t) ==
    \/ lim.limit_samples > 0 /\ lim.samples_read >= lim.limit_samples
    \/ lim.limit_msec > 0 /\ t - lim.start_time > lim.limit_msec

\* handle_poll_data counting one sample per channel value.
handle_poll_data_per_channel(p, b, blen, lim) ==
    IF blen # p.poll_len
    THEN [ packets |-> << >>, limits |-> lim ]
    ELSE [ packets |-> [i \in 1..Len(sdi_channels(p)) |->
                           send_channel(b, p.channels[i], sdi_channels(p)[i])],
           limits |-> sr_sw_limits_update_samples_read(
                          lim, Len(sdi_channels(p))) ]

\* handle_poll_data with the table index running one ahead of the channel.
handle_poll_data_shifted(p, b, blen, lim) ==
    IF blen # p.poll_len
    THEN [ packets |-> << >>, limits |-> lim ]
    ELSE [ packets |-> [i \in 1..Len(sdi_channels(p)) |->
                           send_channel(b,
                               p.channels[(i % Len(p.channels)) + 1],
                               sdi_channels(p)[i])],
           limits |-> sr_sw_limits_update_samples_read(lim, 1) ]

\* handle_poll_data: the packets sent for the buffer, in order, and the
\* limits after it.
handle_poll_data(p, b, blen, lim) ==
    IF blen # p.poll_len
    THEN [ packets |-> << >>, limits |-> lim ]
    ELSE [ packets |-> [i \in 1..Len(sdi_channels(p)) |->
                           send_channel(b, p.channels[i], sdi_channels(p)[i])],
           limits |-> sr_sw_limits_update_samples_read(lim, 1) ]

---------------------------------------------------------------------------
(* Frame assembler.                                                        *)

\* recv_byte with the length decremented and the memmove forgotten: the
\* newest byte is lost instead of the oldest.
recv_byte_no_memmove(p, st, c) ==
    IF Len(st.buf) < p.poll_len
    THEN LET b1 == Append(st.buf, c)
         IN  IF /\ p.poll_start # NULL
                /\ Len(b1) = p.poll_start_len
                /\ memcmp(b1, 0, p.poll_start, p.poll_start_len) # 0
             THEN [ buf |-> SubSeq(b1, 1, Len(b1) - 1), n |-> st.n + 1,
                    skipped |-> Append(st.skipped, b1[Len(b1)]) ]
             ELSE [ buf |-> b1, n |-> st.n + 1, skipped |-> st.skipped ]
    ELSE st

\* recv_byte comparing the first byte of the start marker only.
recv_byte_first_byte_only(p, st, c) ==
    IF Len(st.buf) < p.poll_len
    THEN LET b1 == Append(st.buf, c)
         IN  IF /\ p.poll_start # NULL
                /\ Len(b1) = p.poll_start_len
                /\ memcmp(b1, 0, p.poll_start, 1) # 0
             THEN [ buf |-> Tail(b1), n |-> st.n + 1,
                    skipped |-> Append(st.skipped, b1[1]) ]
             ELSE [ buf |-> b1, n |-> st.n + 1, skipped |-> st.skipped ]
    ELSE st

\* recv_byte dropping the whole buffer on a start-marker mismatch.
recv_byte_drop_all(p, st, c) ==
    IF Len(st.buf) < p.poll_len
    THEN LET b1 == Append(st.buf, c)
         IN  IF /\ p.poll_start # NULL
                /\ Len(b1) = p.poll_start_len
                /\ memcmp(b1, 0, p.poll_start, p.poll_start_len) # 0
             THEN [ buf |-> << >>, n |-> st.n + 1,
                    skipped |-> st.skipped \o b1 ]
             ELSE [ buf |-> b1, n |-> st.n + 1, skipped |-> st.skipped ]
    ELSE st

\* One turn of the while loop of recv_poll_data with byte c readable.  st
\* holds devc->buf[0 .. buflen-1] (buf), the number of bytes read so far (n)
\* and the bytes dropped so far (skipped).  With the buffer full the loop
\* has ended and c is not read.
recv_byte(p, st, c) ==
    IF Len(st.buf) < p.poll_len
    THEN LET b1 == Append(st.buf, c)
         IN  IF /\ p.poll_start # NULL
                /\ Len(b1) = p.poll_start_len
                /\ memcmp(b1, 0, p.poll_start, p.poll_start_len) # 0
             THEN [ buf |-> Tail(b1), n |-> st.n + 1,
                    skipped |-> Append(st.skipped, b1[1]) ]
             ELSE [ buf |-> b1, n |-> st.n + 1, skipped |-> st.skipped ]
    ELSE st

\* The while loop of recv_poll_data over the readable bytes rx[lo .. hi], in
\* order (the range is halved to keep the evaluation shallow).
RECURSIVE recv_loop(_, _, _, _, _)
recv_loop(p, st, rx, lo, hi) ==
    IF lo > hi \/ Len(st.buf) >= p.poll_len
    THEN st
    ELSE IF lo = hi
    THEN recv_byte(p, st, rx[lo])
    ELSE LET mid == (lo + hi) \div 2
         IN  recv_loop(p, recv_loop(p, st, rx, lo, mid), rx, mid + 1, hi)

\* The end-marker test left out: every full buffer is accepted.
end_marker_any(p, b) == TRUE

\* The end-marker test of recv_poll_data on a full buffer.
end_marker_ok(p, b) ==
    /\ p.poll_end # NULL
    /\ memcmp(b, Len(b) - p.poll_end_len, p.poll_end, p.poll_end_len) = 0

\* recv_poll_data without the reset of the fill length after a full buffer.
recv_poll_data_no_reset(p, b, lim, rx) ==
    LET l == recv_loop(p, [ buf |-> b, n |-> 0, skipped |-> << >> ], rx, 1,
                       Len(rx))
        full == Len(l.buf) = p.poll_len
        handled == full /\ end_marker_ok(p, l.buf)
        h == IF handled
             THEN handle_poll_data(p, l.buf, Len(l.buf), lim)
             ELSE [ packets |-> << >>, limits |-> lim ]
    IN  [ buf |-> l.buf,
          n |-> l.n,
          skipped |-> l.skipped,
          full |-> full,
          frame |-> IF handled THEN << l.buf >> ELSE << >>,
          packets |-> h.packets,
          limits |-> h.limits ]

\* recv_poll_data going on to read after a full buffer: a second frame is
\* assembled and handled in the same call.
recv_poll_data_drain(p, b, lim, rx) ==
    LET l1 == recv_loop(p, [ buf |-> b, n |-> 0, skipped |-> << >> ], rx, 1,
                        Len(rx))
        full1 == Len(l1.buf) = p.poll_len
        ok1 == full1 /\ end_marker_ok(p, l1.buf)
        h1 == IF ok1
              THEN handle_poll_data(p, l1.buf, Len(l1.buf), lim)
              ELSE [ packets |-> << >>, limits |-> lim ]
        l2 == IF full1
              THEN recv_loop(p, [ buf |-> << >>, n |-> l1.n,
                                  skipped |-> l1.skipped ],
                             rx, l1.n + 1, Len(rx))
              ELSE l1
        full2 == Len(l2.buf) = p.poll_len
        ok2 == full1 /\ full2 /\ end_marker_ok(p, l2.buf)
        h2 == IF ok2
              THEN handle_poll_data(p, l2.buf, Len(l2.buf), h1.limits)
              ELSE [ packets |-> << >>, limits |-> h1.limits ]
    IN  [ buf |-> IF full2 THEN << >> ELSE l2.buf,
          n |-> l2.n,
          skipped |-> l2.skipped,
          full |-> full1,
          frame |-> (IF ok1 THEN << l1.buf >> ELSE << >>)
                        \o (IF ok2 THEN << l2.buf >> ELSE << >>),
          packets |-> h1.packets \o h2.packets,
          limits |-> h2.limits ]

\* recv_poll_data counting a frame with a bad end marker as a sample read.
recv_poll_data_bad_end_counts(p, b, lim, rx) ==
    LET l == recv_loop(p, [ buf |-> b, n |-> 0, skipped |-> << >> ], rx, 1,
                       Len(rx))
        full == Len(l.buf) = p.poll_len
        handled == full /\ end_marker_ok(p, l.buf)
        h == IF handled
             THEN handle_poll_data(p, l.buf, Len(l.buf), lim)
             ELSE [ packets |-> << >>,
                    limits |-> IF full
                               THEN sr_sw_limits_update_samples_read(lim, 1)
                               ELSE lim ]
    IN  [ buf |-> IF full THEN << >> ELSE l.buf,
          n |-> l.n,
          skipped |-> l.skipped,
          full |-> full,
          frame |-> IF handled THEN << l.buf >> ELSE << >>,
          packets |-> h.packets,
          limits |-> h.limits ]

\* recv_poll_data: the buffer and the limits after the call, the number of
\* bytes read, the bytes dropped, the buffer handed to handle_poll_data (if
\* any) and the packets handle_poll_data sent.
recv_poll_data(p, b, lim, rx) ==
    LET l == recv_loop(p, [ buf |-> b, n |-> 0, skipped |-> << >> ], rx, 1,
                       Len(rx))
        full == Len(l.buf) = p.poll_len
        handled == full /\ end_marker_ok(p, l.buf)
        h == IF handled
             THEN handle_poll_data(p, l.buf, Len(l.buf), lim)
             ELSE [ packets |-> << >>, limits |-> lim ]
    IN  [ buf |-> IF full THEN << >> ELSE l.buf,
          n |-> l.n,
          skipped |-> l.skipped,
          full |-> full,
          frame |-> IF handled THEN << l.buf >> ELSE << >>,
          packets |-> h.packets,
          limits |-> h.limits ]

---------------------------------------------------------------------------
(* Poll command and receive callback.                                      *)

\* rdtech_um_poll.  w is what serial_write_blocking returns (negative: an
\* error, otherwise the number of bytes written), t the clock read after
\* the write.
rdtech_um_poll(sent_at, w, t) ==
    IF w < 0
    THEN [ ret |-> "SR_ERR", cmd_sent_at |-> sent_at ]
    ELSE [ ret |-> "SR_OK", cmd_sent_at |-> t ]

\* The bytes a write that returned w put on the line.
written(w) == IF w > 0 THEN SubSeq(request, 1, w) ELSE << >>

\* The poll test waiting for the response to the previous poll.
poll_due_after_response(p, elapsed) ==
    elapsed > p.poll_period /\ decoded # << >>

\* The poll test of rdtech_um_receive_data.
poll_due(p, elapsed) == elapsed > p.poll_period

\* The poll sent whenever it is due, the limits reached or not.
poll_before_limits(stop, p, elapsed) == poll_due(p, elapsed)

\* Whether a call of rdtech_um_receive_data gets to rdtech_um_poll: the
\* limits check has not returned before, and the poll is due.
poll_reached(stop, p, elapsed) == ~stop /\ poll_due(p, elapsed)

\* sr_dev_acquisition_stop: the callback is no longer registered with the
\* session.
sr_dev_acquisition_stop == FALSE

\* What a write of the request can return: an error, no byte written when
\* the timeout is reached, the byte written.
WriteResults == { -1, 0, 1 }

\* rdtech_um_receive_data(fd, revents, sdi), with k bytes of the wire
\* readable during the call.  The call reads the clock up to three times:
\* in the limits check, for the elapsed time (now = ...), and in
\* rdtech_um_poll after the write; D holds the times (ms) by which a read
\* can be later than the read before it.  cb records the call: the elapsed
\* time computed (for a call that stops, which computes none, the time
\* since the last poll), the decisions taken and what the write returned.
rdtech_um_receive_data(revents, k, D) ==
    LET r == IF revents = G_IO_IN
             THEN recv_poll_data(profile, buf, limits, SubSeq(wire, 1, k))
             ELSE [ buf |-> buf, n |-> 0, skipped |-> << >>, full |-> FALSE,
                    frame |-> << >>, packets |-> << >>, limits |-> limits ]
        stop == sr_sw_limits_check(r.limits, now)
    IN  /\ buf' = r.buf
        /\ buflen' = Len(r.buf)
        /\ limits' = r.limits
        /\ wire' = SubSeq(wire, r.n + 1, Len(wire))
        /\ sink' = sink \o r.packets
        /\ decoded' = decoded \o r.frame
        /\ skipped' = skipped \o r.skipped
        /\ IF stop
           THEN /\ stops' = stops + 1
                /\ acquiring' = sr_dev_acquisition_stop
           ELSE UNCHANGED << stops, acquiring >>
        /\ \E d1 \in IF stop THEN { 0 } ELSE D :
               LET t1 == now + d1
                   elapsed == t1 - cmd_sent_at
               IN  IF poll_reached(stop, profile, elapsed)
                   THEN \E w \in WriteResults, d2 \in D :
                        /\ cmd_sent_at' =
                               rdtech_um_poll(cmd_sent_at, w,
                                              t1 + d2).cmd_sent_at
                        /\ tx' = tx \o written(w)
                        /\ now' = t1 + d2
                        /\ cb' = [ elapsed |-> elapsed, stop |-> stop,
                                   polled |-> TRUE, w |-> w,
                                   full |-> r.full,
                                   handled |-> r.frame # << >>,
                                   ret |-> TRUE ]
                   ELSE /\ cb' = [ elapsed |-> elapsed, stop |-> stop,
                                   polled |-> FALSE, w |-> 0,
                                   full |-> r.full,
                                   handled |-> r.frame # << >>,
                                   ret |-> TRUE ]
                        /\ now' = t1
                        /\ UNCHANGED << cmd_sent_at, tx >>
        /\ UNCHANGED << profile, pr, sample, dev >>

---------------------------------------------------------------------------
(* Environment: the device, the clock, the session.                        *)

\* Bounds of the model.
MaxGarbage == 2
MaxSamples == 2
MaxTime == 255
MaxMsec == 120
MaxStops == 3

\* A frame of the profile's length: the start bytes s, the end bytes e, the
\* bytes vals at their offsets, 0 elsewhere.
MkFrame(p, s, e, vals) ==
    [i \in 1..p.poll_len |->
        IF i <= Len(s) THEN s[i]
        ELSE IF i > p.poll_len - Len(e) THEN e[i - (p.poll_len - Len(e))]
        ELSE IF (i - 1) \in DOMAIN vals THEN vals[i - 1]
        ELSE 0]

\* Readings: 1.50 V, 0.100 A, 25 C, 1.000 Wh.
ValsA == (3 :> 150) @@ (5 :> 100) @@ (11 :> 25) @@ (108 :> 3) @@ (109 :> 232)

\* Readings, different for every channel, whose bytes hold both markers
\* inside the frame.
ValsB == (2 :> 9) @@ (3 :> 99) @@ (4 :> 255) @@ (5 :> 241) @@ (10 :> 1)
         @@ (11 :> 2) @@ (96 :> 9) @@ (97 :> 98) @@ (98 :> 3) @@ (99 :> 4)
         @@ (106 :> 0) @@ (107 :> 255) @@ (108 :> 241) @@ (109 :> 7)

GoodA == MkFrame(rdtech_um24c_profile, << 9, 99 >>, << 255, 241 >>, ValsA)
GoodB == MkFrame(rdtech_um24c_profile, << 9, 99 >>, << 255, 241 >>, ValsB)
BadEnd == MkFrame(rdtech_um24c_profile, << 9, 99 >>, << 255, 0 >>, ValsA)

\* Bytes of line noise: the two start-marker bytes and another byte.
GarbageBytes == { 9, 99, 0 }

GarbageSeqs == UNION { [1..n -> GarbageBytes] : n \in 0..MaxGarbage }

\* What the device sends, with the sample cap of the acquisition: garbage
\* and a good frame, without a cap; or two frames, the first one good or
\* with a bad end marker, under every cap (0: no cap).
Scripts ==
    { [ garbage |-> g, first |-> << >>, second |-> GoodB, cap |-> 0 ] :
        g \in GarbageSeqs }
    \cup
    { [ garbage |-> << >>, first |-> f, second |-> GoodB, cap |-> c ] :
        f \in { GoodA, BadEnd }, c \in 0..MaxSamples }

Stream(d) == d.garbage \o d.first \o d.second

\* What a callback can be woken with: a timeout (0), data to read, data to
\* read together with another condition.
Revents == { 0, G_IO_IN, G_IO_IN + 8 }

\* The state when the acquisition has started: a zeroed buffer, the limits
\* started, the first poll sent.
InitAcq(d, ls, lm) ==
    /\ profile = rdtech_um24c_profile
    /\ buf = << >>
    /\ buflen = 0
    /\ cmd_sent_at = 0
    /\ limits = [ limit_samples |-> ls, limit_msec |-> lm, samples_read |-> 0,
                  start_time |-> 0 ]
    /\ acquiring = TRUE
    /\ now = 0
    /\ dev = d
    /\ wire = Stream(d)
    /\ tx = request
    /\ sink = << >>
    /\ decoded = << >>
    /\ skipped = << >>
    /\ stops = 0
    /\ cb = [ elapsed |-> 0, stop |-> FALSE, polled |-> FALSE, w |-> 0,
              full |-> FALSE, handled |-> FALSE, ret |-> TRUE ]
    /\ pr = [ ret |-> "none" ]
    /\ sample = [ type |-> -1 ]

Init == \E d \in Scripts : InitAcq(d, d.cap, 0)

\* The session calls the callback while it is registered, up to the time
\* MaxTime of the model; D: see rdtech_um_receive_data.
Called(revents, k, D) ==
    /\ acquiring
    /\ now <= MaxTime
    /\ rdtech_um_receive_data(revents, k, D)

\* How many bytes a call finds readable: none, one, or all that is left.
Readable == { k \in { 0, 1, Len(wire) } : k <= Len(wire) }

\* Calls so short that the clock reads the same throughout.
ReceiveData ==
    \E revents \in Revents, k \in Readable :
        Called(revents, k, { 0 })

\* The clock advances by d ms, up to the time MaxTime of the model.
Tick(d) ==
    /\ now + d <= MaxTime
    /\ now' = now + d
    /\ UNCHANGED << profile, buf, buflen, cmd_sent_at, limits, acquiring, wire,
                    tx, sink, decoded, skipped, stops, cb, pr, sample, dev >>

Next == ReceiveData

Spec == Init /\ [][Next]_vars

---------------------------------------------------------------------------
(* Poll scheduler: the callback under a running clock.                     *)

\* The device answers the first poll with one good frame or not at all;
\* the acquisition has a sample cap of 1 or none, a time cap or none.
SchedScripts ==
    { [ garbage |-> << >>, first |-> << >>, second |-> f, cap |-> c,
        msec |-> m ] :
        f \in { << >>, GoodA }, c \in { 0, 1 }, m \in { 0, MaxMsec } }

InitSched == \E d \in SchedScripts : InitAcq(d, d.cap, d.msec)

\* The clock moves in steps of half a poll period, or a millisecond more.
TickSteps ==
    { rdtech_um24c_profile.poll_period \div 2,
      rdtech_um24c_profile.poll_period \div 2 + 1 }

\* Between two clock reads of a call the clock stands or makes a step.
CallSteps == { 0 } \cup TickSteps

\* A call finds nothing to read or the whole answer.
ReceiveBurst ==
    \E revents \in Revents :
        \E k \in IF revents = G_IO_IN THEN { 0, Len(wire) } ELSE { 0 } :
            Called(revents, k, CallSteps)

ClockTick == \E d \in TickSteps : Tick(d)

NextSched ==
    \/ ReceiveBurst
    \/ ClockTick

SpecSched == InitSched /\ [][NextSched]_vars

\* The callback called by the timeout of its event source, no data to read.
ReceiveTimeout == Called(0, 0, CallSteps)

\* The event loop keeps calling the registered callback (without data its
\* timeout wakes it) and the clock keeps running.
SpecSchedFair ==
    /\ SpecSched
    /\ WF_vars(ReceiveTimeout)
    /\ WF_vars(ClockTick)

---------------------------------------------------------------------------
(* A whole acquisition: noise, bad and good frames, the clock, the limits. *)

\* The device sends two frames, the first one good or with a bad end
\* marker, after a byte of noise or none; the acquisition has a sample cap
\* or a time cap or none.
SessionScripts ==
    { [ garbage |-> g, first |-> f, second |-> GoodB, cap |-> l[1],
        msec |-> l[2] ] :
        g \in { << >>, << 0 >> }, f \in { GoodA, BadEnd },
        l \in { << c, 0 >> : c \in 0..MaxSamples } \cup { << 0, MaxMsec >> } }

InitSession == \E d \in SessionScripts : InitAcq(d, d.cap, d.msec)

\* A call finds nothing to read, half a frame, or all that is left.
Chunks ==
    { k \in { 0, rdtech_um24c_profile.poll_len \div 2, Len(wire) } :
        k <= Len(wire) }

\* The clock moves past a poll period at a time; between two clock reads
\* of a call it stands or makes such a step.
SessionSteps == { 0, rdtech_um24c_profile.poll_period + 1 }

ReceiveChunk ==
    \E revents \in Revents :
        \E k \in IF revents = G_IO_IN THEN Chunks ELSE { 0 } :
            Called(revents, k, SessionSteps)

SessionTick == Tick(rdtech_um24c_profile.poll_period + 1)

NextSession ==
    \/ ReceiveChunk
    \/ SessionTick

SpecSession == InitSession /\ [][NextSession]_vars

---------------------------------------------------------------------------
(* Calls of the callback after the stop.                                   *)

\* The device sends two good frames; the acquisition has a sample cap of 1
\* or 2, or a time cap.
LateScripts ==
    { [ garbage |-> << >>, first |-> GoodA, second |-> GoodB, cap |-> l[1],
        msec |-> l[2] ] :
        l \in { << c, 0 >> : c \in 1..MaxSamples } \cup { << 0, MaxMsec >> } }

InitLate == \E d \in LateScripts : InitAcq(d, d.cap, d.msec)

\* A call of the callback after sr_dev_acquisition_stop has been called:
\* rdtech_um_receive_data has no test of its own for a stopped
\* acquisition, and whether the session still calls it is decided outside
\* this driver.  At most MaxStops stops are followed.
LateCall ==
    /\ ~acquiring
    /\ stops < MaxStops
    /\ \E revents \in Revents :
           \E k \in IF revents = G_IO_IN THEN Chunks ELSE { 0 } :
               rdtech_um_receive_data(revents, k, SessionSteps)

NextLate ==
    \/ ReceiveChunk
    \/ LateCall
    \/ SessionTick

SpecLate == InitLate /\ [][NextLate]_vars

---------------------------------------------------------------------------
(* Probe.                                                                  *)

\* rdtech_um_probe writing the request a second time when the write fails.
rdtech_um_probe_retry(p, w, len, b, ub) ==
    IF w < 0
    THEN [ ret |-> "NULL", writes |-> << request, request >>, reads |-> 0 ]
    ELSE IF len # p.poll_len
    THEN [ ret |-> IF ub = "aborts" THEN "abort" ELSE "NULL",
           writes |-> << request >>, reads |-> 1 ]
    ELSE IF /\ p.poll_start # NULL
            /\ memcmp(b, 0, p.poll_start, p.poll_start_len) # 0
    THEN [ ret |-> "NULL", writes |-> << request >>, reads |-> 1 ]
    ELSE IF /\ p.poll_end # NULL
            /\ memcmp(b, p.poll_len - p.poll_end_len, p.poll_end,
                      p.poll_end_len) # 0
    THEN [ ret |-> "NULL", writes |-> << request >>, reads |-> 1 ]
    ELSE [ ret |-> "profile", writes |-> << request >>, reads |-> 1 ]

\* rdtech_um_probe for profile p.  w is what serial_write_blocking returns,
\* len what serial_read_blocking returns and b the local buffer after the
\* read.  On a short read the function calls g_free on that buffer, an
\* array on the stack: the behaviour is undefined, and ub is what the call
\* does (it returns, or the allocator aborts the process).  The result is
\* the value returned ("abort": none), the writes made and the number of
\* reads made.
rdtech_um_probe(p, w, len, b, ub) ==
    IF w < 0
    THEN [ ret |-> "NULL", writes |-> << request >>, reads |-> 0 ]
    ELSE IF len # p.poll_len
    THEN [ ret |-> IF ub = "aborts" THEN "abort" ELSE "NULL",
           writes |-> << request >>, reads |-> 1 ]
    ELSE IF /\ p.poll_start # NULL
            /\ memcmp(b, 0, p.poll_start, p.poll_start_len) # 0
    THEN [ ret |-> "NULL", writes |-> << request >>, reads |-> 1 ]
    ELSE IF /\ p.poll_end # NULL
            /\ memcmp(b, p.poll_len - p.poll_end_len, p.poll_end,
                      p.poll_end_len) # 0
    THEN [ ret |-> "NULL", writes |-> << request >>, reads |-> 1 ]
    ELSE [ ret |-> "profile", writes |-> << request >>, reads |-> 1 ]

\* What the blocking read of the probe can return: an error, nothing, one
\* byte less than a frame, a frame.
ProbeLens ==
    { -1, 0, rdtech_um24c_profile.poll_len - 1, rdtech_um24c_profile.poll_len }

\* Responses: every two leading bytes and every two trailing bytes made of
\* the marker bytes and 0.
ProbeHeads == [1..2 -> { 9, 99, 0 }]

ProbeTails == [1..2 -> { 255, 241, 0 }]

\* The state before the device is probed: no acquisition.
InitProbe ==
    /\ profile = rdtech_um24c_profile
    /\ buf = << >>
    /\ buflen = 0
    /\ cmd_sent_at = 0
    /\ limits = [ limit_samples |-> 0, limit_msec |-> 0, samples_read |-> 0,
                  start_time |-> 0 ]
    /\ acquiring = FALSE
    /\ now = 0
    /\ dev = [ garbage |-> << >>, first |-> << >>, second |-> << >>,
               cap |-> 0 ]
    /\ wire = << >>
    /\ tx = << >>
    /\ sink = << >>
    /\ decoded = << >>
    /\ skipped = << >>
    /\ stops = 0
    /\ cb = [ elapsed |-> 0, stop |-> FALSE, polled |-> FALSE, w |-> 0,
              full |-> FALSE, handled |-> FALSE, ret |-> TRUE ]
    /\ pr = [ ret |-> "none" ]
    /\ sample = [ type |-> -1 ]

\* One call of rdtech_um_probe.
Probe ==
    \E w \in WriteResults, len \in ProbeLens, h \in ProbeHeads,
       t \in ProbeTails, ub \in { "returns", "aborts" } :
        LET b == MkFrame(rdtech_um24c_profile, h, t, ValsA)
            r == rdtech_um_probe(rdtech_um24c_profile, w, len, b, ub)
        IN  /\ pr.ret = "none"
            /\ ~acquiring
            /\ pr' = [ ret |-> r.ret, writes |-> r.writes,
                       reads |-> r.reads, w |-> w, len |-> len,
                       head |-> h, tail |-> t ]
            /\ tx' = tx \o written(w)
            /\ UNCHANGED << profile, buf, buflen, cmd_sent_at, limits,
                            acquiring, now, wire, sink, decoded, skipped,
                            stops, cb, sample, dev >>

SpecProbe == InitProbe /\ [][Probe]_vars

---------------------------------------------------------------------------
(* Probe and frame assembler on the same response, for profiles with and   *)
(* without markers.                                                        *)

\* The profile of the UM24C, and the same profile without an end marker
\* and without a start marker (struct rdtech_um_profile allows both).
Profiles ==
    { rdtech_um24c_profile,
      [ rdtech_um24c_profile EXCEPT !.poll_end = NULL, !.poll_end_len = 0 ],
      [ rdtech_um24c_profile EXCEPT !.poll_start = NULL,
                                    !.poll_start_len = 0 ] }

\* A device of profile p that answers every request with the same response
\* of poll_len bytes: one answer for the probe, one for the first poll.
InitFrame ==
    \E p \in Profiles, h \in ProbeHeads, t \in ProbeTails :
        /\ profile = p
        /\ buf = << >>
        /\ buflen = 0
        /\ cmd_sent_at = 0
        /\ limits = [ limit_samples |-> 0, limit_msec |-> 0,
                      samples_read |-> 0, start_time |-> 0 ]
        /\ acquiring = FALSE
        /\ now = 0
        /\ dev = [ garbage |-> << >>, first |-> << >>,
                   second |-> MkFrame(p, h, t, ValsA), cap |-> 0 ]
        /\ wire = MkFrame(p, h, t, ValsA) \o MkFrame(p, h, t, ValsA)
        /\ tx = << >>
        /\ sink = << >>
        /\ decoded = << >>
        /\ skipped = << >>
        /\ stops = 0
        /\ cb = [ elapsed |-> 0, stop |-> FALSE, polled |-> FALSE, w |-> 0,
                  full |-> FALSE, handled |-> FALSE, ret |-> TRUE ]
        /\ pr = [ ret |-> "none" ]
        /\ sample = [ type |-> -1 ]

\* recv_poll_data with the whole response readable, on a device that has
\* been probed.
AssembleFrame ==
    LET r == recv_poll_data(profile, buf, limits, wire)
    IN  /\ pr.ret # "none"
        /\ wire # << >>
        /\ buf' = r.buf
        /\ buflen' = Len(r.buf)
        /\ limits' = r.limits
        /\ wire' = SubSeq(wire, r.n + 1, Len(wire))
        /\ sink' = sink \o r.packets
        /\ decoded' = decoded \o r.frame
        /\ skipped' = skipped \o r.skipped
        /\ UNCHANGED << profile, cmd_sent_at, acquiring, now, tx, stops, cb,
                        pr, sample, dev >>

\* rdtech_um_probe with the request written in full: the request goes on
\* the link, the blocking read takes the first response off it, and the
\* checks run on the bytes read.
ProbeFrame ==
    LET len == IF Len(wire) < profile.poll_len THEN Len(wire)
               ELSE profile.poll_len
        b == SubSeq(wire, 1, len)
        r == rdtech_um_probe(profile, Len(request), len, b, "returns")
    IN  /\ pr.ret = "none"
        /\ Len(wire) >= profile.poll_len
        /\ pr' = [ ret |-> r.ret, writes |-> r.writes, reads |-> r.reads,
                   w |-> Len(request), len |-> len,
                   head |-> SubSeq(b, 1, 2),
                   tail |-> SubSeq(b, len - 1, len) ]
        /\ tx' = tx \o written(Len(request))
        /\ wire' = SubSeq(wire, len + 1, Len(wire))
        /\ UNCHANGED << profile, buf, buflen, cmd_sent_at, limits, acquiring,
                        now, sink, decoded, skipped, stops, cb, sample, dev >>

NextFrame ==
    \/ AssembleFrame
    \/ ProbeFrame

SpecFrame == InitFrame /\ [][NextFrame]_vars

---------------------------------------------------------------------------
(* Sample decoder on frames of every content.                              *)

\* The offsets of the channel table.
DecodeOffsets == { 2, 4, 10, 96, 98, 106 }

\* Byte values: of the first byte of the field at offset o, of any other
\* byte.
HighBytes(o) == { 0, 3, 11, 255 }

LowBytes == { 0, 150, 255 }

\* Frames whose bytes are 0 but for the markers and four bytes at a
\* channel offset; and the frame with the readings 1.50 V, 0.100 A, 25 C,
\* 1.000 Wh.
DecodeInputs ==
    { [ offset |-> o, bytes |-> << b0, b1, b2, b3 >>,
        frame |-> MkFrame(rdtech_um24c_profile, << 9, 99 >>, << 255, 241 >>,
                          (o :> b0) @@ (o + 1 :> b1) @@ (o + 2 :> b2)
                              @@ (o + 3 :> b3)) ] :
        o \in DecodeOffsets, b0 \in { 0, 3, 11, 255 },
        b1 \in LowBytes \cup { 3, 63 }, b2 \in LowBytes, b3 \in LowBytes }
    \cup { [ offset |-> 106, bytes |-> << 0, 0, 3, 232 >>, frame |-> GoodA ],
           [ offset |-> 106, bytes |-> << 0, 255, 241, 7 >>,
             frame |-> GoodB ] }

\* A full, validated buffer about to be decoded.
InitDecode ==
    \E d \in DecodeInputs :
        /\ d.bytes[1] \in HighBytes(d.offset)
        /\ profile = rdtech_um24c_profile
        /\ buf = d.frame
        /\ buflen = Len(d.frame)
        /\ cmd_sent_at = 0
        /\ limits = [ limit_samples |-> 0, limit_msec |-> 0,
                      samples_read |-> 0, start_time |-> 0 ]
        /\ acquiring = TRUE
        /\ now = 0
        /\ dev = [ garbage |-> << >>, first |-> << >>, second |-> << >>,
                   cap |-> 0, offset |-> d.offset, bytes |-> d.bytes ]
        /\ wire = << >>
        /\ tx = request
        /\ sink = << >>
        /\ decoded = << >>
        /\ skipped = << >>
        /\ stops = 0
        /\ cb = [ elapsed |-> 0, stop |-> FALSE, polled |-> FALSE, w |-> 0,
                  full |-> FALSE, handled |-> FALSE, ret |-> TRUE ]
        /\ pr = [ ret |-> "none" ]
        /\ sample = [ type |-> -1 ]

\* get_sample on the buffer for a channel of type t and scale sc at the
\* offset of the four bytes; type 3 is no data type.
GetSample ==
    \E t \in { RDTECH_UM_UINT8, RDTECH_UM_UINT16, RDTECH_UM_UINT32, 3 },
       sc \in { FLOAT_0_001, FLOAT_0_01, FLOAT_1_0 } :
        /\ sample' =
               [ type |-> t, scale |-> sc,
                 value |-> get_sample(buf,
                               [ name |-> "T", offset |-> dev.offset,
                                 type |-> t, scale |-> sc, digits |-> 3,
                                 mq |-> "0", unit |-> "0" ]) ]
        /\ UNCHANGED << profile, buf, buflen, cmd_sent_at, limits, acquiring,
                        now, wire, tx, sink, decoded, skipped, stops, cb, pr,
                        dev >>

\* handle_poll_data on the buffer.
HandlePollData ==
    LET h == handle_poll_data(profile, buf, buflen, limits)
    IN  /\ decoded = << >>
        /\ decoded' = << buf >>
        /\ sink' = sink \o h.packets
        /\ limits' = h.limits
        /\ UNCHANGED << profile, buf, buflen, cmd_sent_at, acquiring, now,
                        wire, tx, skipped, stops, cb, pr, sample, dev >>

NextDecode ==
    \/ GetSample
    \/ HandlePollData

SpecDecode == InitDecode /\ [][NextDecode]_vars

---------------------------------------------------------------------------
(* Frame assembler: properties.                                            *)

Min(a, b) == IF a <= b THEN a ELSE b

Max(a, b) == IF a >= b THEN a ELSE b

\* The number of bytes of the device's stream read so far.
Consumed == Len(Stream(dev)) - Len(wire)

\* An occurrence of the marker m begins inside g when g is followed by m.
MarkerBeginsIn(g, m) ==
    \E i \in 1..Len(g) :
        \A j \in 1..Len(m) : (g \o m)[i + j - 1] = m[j]

\* The assembler meets every frame of the stream at its first byte: no
\* start marker begins in the garbage.
Aligned == ~MarkerBeginsIn(dev.garbage, << 9, 99 >>)

\* f is a well-formed frame: 130 bytes from 09 63 to FF F1.
WellFormed(f) ==
    /\ Len(f) = 130
    /\ f[1] = 9 /\ f[2] = 99
    /\ f[129] = 255 /\ f[130] = 241

\* The well-formed frames of the stream read to their last byte, in order.
FramesDone ==
    LET e1 == Len(dev.garbage) + Len(dev.first)
        e2 == e1 + Len(dev.second)
    IN  (IF WellFormed(dev.first) /\ Consumed >= e1
         THEN << dev.first >> ELSE << >>)
        \o (IF WellFormed(dev.second) /\ Consumed >= e2
            THEN << dev.second >> ELSE << >>)

\* C1 as stated: whatever bytes precede a well-formed frame, once its last
\* byte is read it has been handed to the decoder exactly once, with
\* exactly its bytes.
C1_AnyPrefix == decoded = FramesDone

\* C1, amended: when no start marker begins in the garbage that precedes
\* it, a well-formed frame is handed to the decoder exactly once, with
\* exactly its bytes, by the call that reads its last byte.
C1_AlignedFrameDecodedOnce == Aligned => decoded = FramesDone

C1_Witness ==
    /\ Len(dev.garbage) = MaxGarbage
    /\ Aligned
    /\ wire = << >>
    /\ decoded = << GoodB >>

\* C2 as stated: for every garbage of N bytes, once the start marker that
\* follows it is read exactly the N garbage bytes have been dropped.
C2_AnyGarbage ==
    Consumed >= Len(dev.garbage) + 2 => skipped = dev.garbage

\* C2, amended: when no start marker begins in the garbage, the bytes
\* dropped by the start-marker check are at all times the oldest garbage
\* bytes, in order, one for every byte read after the first; once the
\* marker is read they are exactly the N garbage bytes, and no byte of the
\* marker or after it is ever dropped.
C2_ResyncDropsGarbage ==
    Aligned =>
        skipped = SubSeq(dev.garbage, 1,
                         Min(Len(dev.garbage), Max(Consumed - 1, 0)))

C2_Witness ==
    /\ Len(dev.garbage) = MaxGarbage
    /\ Aligned
    /\ Consumed = Len(dev.garbage) + 2
    /\ skipped = dev.garbage
    /\ buf = << 9, 99 >>

\* C3: a full buffer whose end marker is wrong is dropped whole (the fill
\* length is 0 after the call), nothing is decoded and no byte is shifted
\* out; the good frame that follows a frame with a bad end marker is
\* assembled from the empty buffer and is the only one decoded.
C3_BadEndDiscardsAll ==
    /\ cb.full /\ ~cb.handled => buflen = 0 /\ buf = << >>
    /\ dev.first = BadEnd =>
           /\ skipped = << >>
           /\ Consumed = Len(BadEnd) => buflen = 0 /\ decoded = << >>
           /\ decoded = IF Consumed = Len(BadEnd) + Len(dev.second)
                         THEN << dev.second >> ELSE << >>
           /\ Len(sink) = 6 * Len(decoded)

C3_Witness ==
    /\ dev.first = BadEnd
    /\ wire = << >>
    /\ decoded = << GoodB >>
    /\ cb.full /\ cb.handled

\* C6: with a sample cap K and no time cap, sr_dev_acquisition_stop is
\* called in the call of the callback that decodes the K-th frame, for
\* the first time, and in no other call.
C6_StopOnceAtCap ==
    [][ limits.limit_samples > 0 /\ limits.limit_msec = 0 =>
            IF /\ Len(decoded') = limits.limit_samples
               /\ Len(decoded) = limits.limit_samples - 1
            THEN stops = 0 /\ stops' = 1
            ELSE stops' = stops ]_vars

C6_Witness ==
    /\ limits.limit_samples = MaxSamples
    /\ Len(decoded) = MaxSamples
    /\ stops = 1
    /\ ~acquiring

\* The channel table of the UM24C as the specification lists it: quantity,
\* unit and digits of V, I, D+, D-, Temp, Consumption.
TableMeta ==
    << << "SR_MQ_VOLTAGE", "SR_UNIT_VOLT", 2 >>,
       << "SR_MQ_CURRENT", "SR_UNIT_AMPERE", 3 >>,
       << "SR_MQ_VOLTAGE", "SR_UNIT_VOLT", 2 >>,
       << "SR_MQ_VOLTAGE", "SR_UNIT_VOLT", 2 >>,
       << "SR_MQ_TEMPERATURE", "SR_UNIT_CELSIUS", 0 >>,
       << "0", "SR_UNIT_WATT_HOUR", 3 >> >>

\* floor(m * c / 2^k) for a significand m, a factor c up to 2000 and
\* k >= 0, computed in two halves of m to stay below 2^31.
FloorMul(m, c, k) ==
    IF k >= 12
    THEN ((m \div 4096) * c + ((m % 4096) * c) \div 4096) \div 2^(k - 12)
    ELSE (m \div 4096) * c * 2^(12 - k) + ((m % 4096) * c) \div 2^k

\* The float f times c, rounded to the nearest integer: with c = 1000 the
\* reading in thousandths, as printed with three decimals.
Rounded(f, c) ==
    IF f.m = 0 THEN 0
    ELSE IF f.e >= 0 THEN f.m * 2^f.e * c
    ELSE (FloorMul(f.m, 2 * c, -f.e) + 1) \div 2

\* The readings of the two good frames at three decimals, in thousandths,
\* in table order.  The last reading of the second frame is the float
\* 16773.3848 for the count 16773383.
TableData(f) ==
    IF f = GoodA THEN << 1500, 100, 0, 0, 25000, 1000 >>
    ELSE << 24030, 65521, 24020, 7720, 258000, 16773385 >>

\* C7: the packets sent are, for every frame decoded, one packet per
\* channel in table order V, I, D+, D-, Temp, Consumption, each for its own
\* channel and with its quantity, unit, digits and reading.
C7_OnePacketPerChannel ==
    /\ Len(sink) = 6 * Len(decoded)
    /\ \A j \in 1..Len(decoded) : \A i \in 1..6 :
           LET pk == sink[6 * (j - 1) + i]
           IN  /\ pk.type = "SR_DF_ANALOG"
               /\ pk.channel = i
               /\ pk.mq = TableMeta[i][1]
               /\ pk.unit = TableMeta[i][2]
               /\ pk.digits = TableMeta[i][3]
               /\ pk.spec_digits = TableMeta[i][3]
               /\ pk.num_samples = 1
               /\ Rounded(pk.data, 1000) = TableData(decoded[j])[i]

C7_Witness ==
    /\ decoded = << GoodA, GoodB >>
    /\ Len(sink) = 12

---------------------------------------------------------------------------
(* Poll scheduler: properties.                                             *)

\* C4 as stated: a call that does not stop the acquisition sends a poll
\* when the time since the last poll is at least the poll period, the
\* period itself included, and does not send one when it is less.
C4_PollAtPeriod ==
    /\ ~cb.stop /\ cb.elapsed >= profile.poll_period => cb.polled
    /\ cb.elapsed < profile.poll_period => ~cb.polled

\* C5: whether a call polls is decided by the clock and cmd_sent_at alone
\* (and by the limits), not by the buffer or by a response; and while the
\* callback is called, the clock runs and the limits are not reached, a
\* call that does not poll is followed by one that does, also when the
\* device never answers.  (The clock of the model stops within half a
\* period of MaxTime: the polls sent a period and a half before MaxTime are
\* the ones followed up.)
C5_FireAndForget ==
    /\ [](cb.polled <=> (~cb.stop /\ cb.elapsed > profile.poll_period))
    /\ (/\ acquiring
        /\ ~cb.polled
        /\ cmd_sent_at + profile.poll_period + profile.poll_period \div 2
               <= MaxTime)
           ~> (cb.polled \/ ~acquiring)

C5_Witness ==
    /\ Stream(dev) = << >>
    /\ decoded = << >>
    /\ cb.polled
    /\ Len(tx) = 3

---------------------------------------------------------------------------
(* Probe: properties.                                                      *)

\* C9 as stated: the probe returns the profile exactly when the write did
\* not fail, the read returned 130 bytes and the response begins with
\* 09 63 and ends with FF F1; in every other case it returns NULL.
C9_ProbeIffValid ==
    pr.ret # "none" =>
        IF /\ pr.w >= 0
           /\ pr.len = 130
           /\ pr.head = << 9, 99 >>
           /\ pr.tail = << 255, 241 >>
        THEN pr.ret = "profile"
        ELSE pr.ret = "NULL"

\* C10: a call of the probe makes one write, of the one byte F0, and one
\* read, or no read when the write failed, whatever it returns.
C10_OneExchange ==
    pr.ret # "none" =>
        /\ pr.writes = << << 240 >> >>
        /\ pr.reads = IF pr.w < 0 THEN 0 ELSE 1

C10_Witness ==
    /\ pr.ret = "NULL"
    /\ pr.w < 0
    /\ pr.reads = 0
    /\ Len(pr.writes) = 1

---------------------------------------------------------------------------
(* Sample decoder: properties.                                             *)

\* The big-endian unsigned value of the first n bytes of b.
BigEndian(b, n) ==
    IF n = 1 THEN b[1]
    ELSE IF n = 2 THEN 256 * b[1] + b[2]
    ELSE 16777216 * b[1] + 65536 * b[2] + 256 * b[3] + b[4]

\* The four bytes of frame f from offset o.
BytesAt(f, o) == << f[o + 1], f[o + 2], f[o + 3], f[o + 4] >>

\* Offset, width in bytes and scale in thousandths of V, I, D+, D-, Temp,
\* Consumption, as the specification lists them.
TableLayout ==
    << << 2, 2, 10 >>, << 4, 2, 1 >>, << 96, 2, 10 >>, << 98, 2, 10 >>,
       << 10, 2, 1000 >>, << 106, 4, 1 >> >>

\* The scale sc in thousandths.
ScaleMilli(sc) ==
    IF sc = FLOAT_0_001 THEN 1 ELSE IF sc = FLOAT_0_01 THEN 10 ELSE 1000

\* The width in bytes of data type t.
Width(t) == IF t = 0 THEN 1 ELSE IF t = 1 THEN 2 ELSE 4

\* floor(n / d) for the 32-bit big-endian value n of the bytes b and
\* d = 100 or 1000, computed in two halves of n to stay below 2^31.
DivBigEndian(b, d) ==
    LET hi == 256 * b[1] + b[2]
        lo == 256 * b[3] + b[4]
    IN  (hi \div d) * 65536 + ((hi % d) * 65536 + lo) \div d

\* The float v is, to the nearest unit, the 32-bit big-endian value of
\* the bytes b times a scale of 1/d, within the precision of a float
\* (one part in 2^22) and the rounding to units.
NearProduct(v, b, d) ==
    LET x == DivBigEndian(b, d)
        r == Rounded(v, 1)
    IN  /\ r - x <= x \div 4194304 + 2
        /\ x - r <= x \div 4194304 + 2

\* The 32-bit big-endian value of the bytes b times k thousandths is below
\* 2^22 thousandths (4194.304), where a float still resolves thousandths.
SmallProduct(b, k) ==
    b[1] = 0 /\ BigEndian(b, 4) * k < 4194304

\* C8 as stated: the sample of a channel is the big-endian unsigned value
\* of its 1, 2 or 4 bytes at the channel's offset times the channel's
\* scale, for every content of the frame (compared in thousandths, the
\* three decimals of the channels; 32-bit values up to 03 FF FF FF, whose
\* thousandths stay below 2^31).
C8_ExactProduct ==
    /\ /\ sample.type \in { 0, 1, 2 }
       /\ (sample.type = 2 =>
               dev.bytes[1] <= 3 /\ sample.scale # FLOAT_1_0)
       => Rounded(sample.value, 1000) =
              BigEndian(dev.bytes, Width(sample.type))
                  * ScaleMilli(sample.scale)
    /\ sink # << >> =>
           \A i \in 1..6 :
               (TableLayout[i][2] = 4 => buf[TableLayout[i][1] + 1] <= 3)
               => Rounded(sink[i].data, 1000) =
                      BigEndian(BytesAt(buf, TableLayout[i][1]),
                                TableLayout[i][2]) * TableLayout[i][3]

\* C8, amended: the sample is the single-precision product of the
\* big-endian unsigned value of the channel's 1, 2 or 4 bytes, converted
\* to float, and the channel's float scale.  At three decimals it is the
\* value times the scale for every 8-bit and 16-bit field and for 32-bit
\* values whose product is below 4194.304; a 32-bit value of any size gives
\* the product to within one part in 2^22 (FF FF FF FF at scale 0.001 gives
\* 4294967.5, 00 FF F1 07 gives 16773.3848).
\* The bytes 00 96 give 1.50 V, 00 64 give 0.100 A, 00 19 give 25 C and
\* 00 00 03 E8 give 1.000 Wh.
C8_BigEndianTimesScale ==
    /\ sample.type \in { 0, 1 } =>
           Rounded(sample.value, 1000) =
               BigEndian(dev.bytes, Width(sample.type))
                   * ScaleMilli(sample.scale)
    /\ sample.type = 2 /\ sample.scale # FLOAT_1_0 =>
           /\ (SmallProduct(dev.bytes, ScaleMilli(sample.scale)) =>
                   Rounded(sample.value, 1000) =
                       BigEndian(dev.bytes, 4) * ScaleMilli(sample.scale))
           /\ NearProduct(sample.value, dev.bytes,
                          1000 \div ScaleMilli(sample.scale))
    /\ sample.type = 2 /\ sample.scale = FLOAT_1_0 /\ dev.bytes[1] = 0 =>
           Rounded(sample.value, 1) = BigEndian(dev.bytes, 4)
    /\ /\ sample.type = 2
       /\ sample.scale = FLOAT_0_001
       /\ dev.bytes = << 255, 255, 255, 255 >>
       => sample.value = [ m |-> 8589935, e |-> -1 ]
    /\ /\ sample.type = 2
       /\ sample.scale = FLOAT_0_001
       /\ dev.bytes = << 0, 255, 241, 7 >>
       => sample.value = [ m |-> 8587973, e |-> -9 ]
    /\ sample.type = 3 => sample.value = [ m |-> 0, e |-> 0 ]
    /\ sink # << >> =>
           \A i \in 1..6 :
               IF TableLayout[i][2] < 4
               THEN Rounded(sink[i].data, 1000) =
                        BigEndian(BytesAt(buf, TableLayout[i][1]),
                                  TableLayout[i][2]) * TableLayout[i][3]
               ELSE LET b == BytesAt(buf, TableLayout[i][1])
                    IN  /\ (SmallProduct(b, TableLayout[i][3]) =>
                                Rounded(sink[i].data, 1000) =
                                    BigEndian(b, 4) * TableLayout[i][3])
                        /\ NearProduct(sink[i].data, b,
                                       1000 \div TableLayout[i][3])
    /\ sink # << >> /\ buf = GoodA =>
           /\ Rounded(sink[1].data, 1000) = 1500
           /\ Rounded(sink[2].data, 1000) = 100
           /\ Rounded(sink[5].data, 1000) = 25000
           /\ Rounded(sink[6].data, 1000) = 1000

C8_Witness ==
    /\ buf = GoodA
    /\ Len(sink) = 6
    /\ sink[1].data = [ m |-> 12582912, e |-> -23 ]
    /\ sample.type = RDTECH_UM_UINT32
    /\ sample.scale = FLOAT_0_001
    /\ sample.value = FLOAT_1_0

---------------------------------------------------------------------------
(* Poll write failures and the session.                                    *)

\* C11 as stated: a call whose poll write did not put the request byte on
\* the link (an error, or the timeout reached with nothing written) leaves
\* cmd_sent_at as it was, writes nothing more, and leaves the buffer alone
\* when it read no byte.
C11_FailedWriteSkipsPoll ==
    [][cb'.polled /\ cb'.w < Len(request) =>
          /\ cmd_sent_at' = cmd_sent_at
          /\ tx' = tx
          /\ (wire' = wire => buf' = buf /\ buflen' = buflen)]_vars

\* C12: every call of the receive callback returns TRUE, whatever failed in
\* it (bad start marker, bad end marker, empty read, failed poll write), and
\* the stop is raised only with a configured cap reached: the sample cap by
\* the frames decoded, or the time cap by the clock; until then the
\* callback stays registered.
C12_FailuresKeepRunning ==
    /\ cb.ret = TRUE
    /\ acquiring <=> stops = 0
    /\ stops > 0 =>
           \/ /\ limits.limit_samples > 0
              /\ Len(decoded) >= limits.limit_samples
           \/ /\ limits.limit_msec > 0
              /\ now - limits.start_time > limits.limit_msec

C12_Witness ==
    /\ acquiring
    /\ stops = 0
    /\ skipped # << >>
    /\ cb.full
    /\ ~cb.handled
    /\ cb.polled
    /\ cb.w < 0
    /\ cb.ret = TRUE

\* C13 as stated: once the session has been stopped the assembly buffer is
\* empty, also when the stop found it partly filled.
C13_StopEmptiesBuffer ==
    stops > 0 => buflen = 0 /\ buf = << >>

---------------------------------------------------------------------------
(* Frame assembler: order, bounds, counters.                               *)

\* C14: the buffer holds the bytes read last, in the order they arrived; a
\* call of the callback hands at most one frame to the decoder, and when it
\* does the frame ends with the last byte read (no byte after the frame
\* has been read: it stays on the link for a later call), all its channel
\* packets are sent and the buffer is empty.
C14_InOrderOneFramePerCall ==
    /\ [](buf = SubSeq(Stream(dev), Consumed - buflen + 1, Consumed))
    /\ [][ /\ Len(decoded') <= Len(decoded) + 1
           /\ Len(decoded') = Len(decoded) + 1 =>
                  /\ decoded'[Len(decoded')] =
                         SubSeq(Stream(dev),
                                Len(Stream(dev)) - Len(wire')
                                    - profile.poll_len + 1,
                                Len(Stream(dev)) - Len(wire'))
                  /\ buflen' = 0
                  /\ Len(sink') = Len(sink) + Len(profile.channels) ]_vars

C14_Witness ==
    /\ dev.first = GoodA
    /\ cb.full
    /\ cb.handled
    /\ decoded = << GoodA >>
    /\ Len(sink) = 6
    /\ wire = GoodB
    /\ buflen = 0

\* C15: the fill length is the number of buffered bytes, at least 0 and,
\* between calls, less than the frame length, which fits the buffer of
\* RDTECH_UM_BUFSIZE bytes; a call reads no more bytes than the buffer had
\* room for, not counting the bytes it dropped (a byte is read only with
\* the fill length below the frame length).
C15_FillBelowFrameLen ==
    /\ [](/\ buflen = Len(buf)
          /\ 0 <= buflen
          /\ buflen < profile.poll_len
          /\ profile.poll_len <= RDTECH_UM_BUFSIZE)
    /\ [][ (Len(wire) - Len(wire')) - (Len(skipped') - Len(skipped))
               <= profile.poll_len - buflen ]_vars

C15_Witness ==
    /\ buflen = profile.poll_len - 1
    /\ wire # << >>
    /\ skipped # << >>

\* C16: the count of samples read equals the number of frames handed to
\* the decoder, at all times: one per frame, whatever the number of
\* channel packets sent, and nothing for a dropped byte, a frame with a bad
\* end marker or a poll.
C16_OneSamplePerFrame ==
    /\ limits.samples_read = Len(decoded)
    /\ Len(sink) = Len(profile.channels) * limits.samples_read

C16_Witness ==
    /\ dev.first = BadEnd
    /\ skipped # << >>
    /\ Len(tx) > Len(request)
    /\ wire = << >>
    /\ decoded = << GoodB >>
    /\ limits.samples_read = 1

\* C17 as stated: the assembler hands a response of poll_len bytes to the
\* decoder exactly when the probe accepts it, for a profile with an end
\* marker and for one without.
C17_ProbeAndAssemblerAgree ==
    pr.ret # "none" /\ wire = << >> =>
        (pr.ret = "profile" <=> decoded = << dev.second >>)

\* C18: whenever the buffer holds at least as many bytes as the start
\* marker has, it begins with the start marker; so does every frame
\* handed to the decoder.
C18_BufferBeginsWithMarker ==
    /\ buflen >= profile.poll_start_len =>
           SubSeq(buf, 1, profile.poll_start_len) = profile.poll_start
    /\ \A i \in 1..Len(decoded) :
           SubSeq(decoded[i], 1, profile.poll_start_len) = profile.poll_start

C18_Witness ==
    /\ Len(skipped) = MaxGarbage
    /\ buflen > profile.poll_start_len
    /\ buflen < profile.poll_len
    /\ SubSeq(buf, 1, 2) = << 9, 99 >>

---------------------------------------------------------------------------
(* Limits and the end of the session.                                      *)

\* C19 as stated: with a sample cap K the frames handed to the decoder, and
\* the readings sent to the session, never number more than K, also in
\* calls that find data to read after the cap has been reached.
C19_CapNeverExceeded ==
    limits.limit_samples > 0 =>
        /\ Len(decoded) <= limits.limit_samples
        /\ Len(sink) <= Len(profile.channels) * limits.limit_samples

\* C20: the call of the callback in which the limits check reports a cap
\* reached writes no poll and leaves cmd_sent_at alone, also with the poll
\* period over, and so does every call made after it.
C20_NoPollOnceStopped ==
    /\ [](cb.stop => ~cb.polled)
    /\ [][ ~acquiring' => tx' = tx /\ cmd_sent_at' = cmd_sent_at ]_vars

C20_Witness ==
    /\ stops = MaxStops
    /\ cb.stop
    /\ ~cb.polled
    /\ cb.elapsed > profile.poll_period
    /\ Len(tx) = 2 * Len(request)

====
